---------------------------- MODULE Spec2Model ----------------------------
(***************************************************************************)
(* A model of the client-side state synchronisation hooks of Raven:        *)
(*                                                                         *)
(*   useReactToMessage            packages/lib/hooks/useReactToMessage.ts  *)
(*   useTTSAutoPlay               frontend/src/hooks/useTTSAutoPlay.ts     *)
(*   useChatPagination            unnamed/part_003                         *)
(*   useFirebasePushTokenListener apps/mobile/hooks/...                    *)
(*   TTSToggle, useTTS            unnamed/part_006, hooks/useTTS.ts        *)
(*   AIThreadAutoOpen             apps/mobile/.../AIThreadAutoOpen.tsx     *)
(*   NotificationSetting          unnamed/part_001                         *)
(*   useSendMessage               unnamed/part_007                         *)
(*   AddChannel                   mobile/src/.../channels/AddChannel.tsx   *)
(*                                                                         *)
(* Each hook is a state machine of its own; the module gives one           *)
(* specification per hook (SpecReaction, SpecTTS, SpecPagination,          *)
(* SpecPush).  The variables of the other hooks stay at their initial      *)
(* value in each of them.                                                  *)
(*                                                                         *)
(* JavaScript runs each handler (an effect, a promise callback, an event   *)
(* listener) to completion on one thread, so every action below is one     *)
(* whole handler.                                                          *)
(***************************************************************************)
EXTENDS Integers, Sequences, FiniteSets, TLC

\* An optional JavaScript value: None is undefined/null, Some(x) is x.
None == <<>>
Some(x) == <<x>>

VARIABLES
    \* ---- useReactToMessage ----
    myProfile,      \* what useCurrentRavenUser returns now (None while loading)
    user,           \* the `user` postReaction closed over (useCallback, deps [])
    cacheData,      \* the SWR cache entry of the key: state.data
    cacheC,         \* the SWR cache entry of the key: state._c (committed backup)
    mutationTs,     \* MUTATION[key][0], the start stamp of the latest mutation
    clock,          \* getTimestamp()'s counter
    calls,          \* the postReaction calls made so far, by call number
    \* ---- useChatPagination ----
    messages,              \* useState<Message[]>: the committed state
    lastBatch,             \* the newMessages of the latest addToMessages call
    replaced,              \* whether that call found a name already in the list
    loadingOlderMessages,  \* useState(false): the value of the current render
    queuedLoading,         \* the setLoadingOlderMessages updates not yet rendered
    olderCalls,            \* calls of loadOlderMessages so far
    olderFetches,          \* fetches of older messages started so far
    deleted,               \* the message a delete event was received for (None
                           \* before any)
    refetched,             \* whether the latest messages were fetched and
                           \* added again after that event
    \* ---- useFirebasePushTokenListener ----
    pushMounted,       \* whether the hook is mounted
    siteInfo,          \* useSiteContext(): None, or Some(site)
    callMade,          \* useRef(false).current
    chain,             \* the promise chain of the effect: where it stands
    chainSite,         \* the site whose `call` the chain closed over
    effectRuns,        \* runs of the effect so far
    permissionRequests,\* messaging.requestPermission() calls so far
    registerCalls,     \* neoffice_theme.mobile.register_device_token calls so far
    tokenStore,        \* the sites whose backend has stored the FCM token
    ravenSubscribed,   \* the sites where raven.api.notification.subscribe succeeded
    switchedTo,        \* the site of the latest switch seen by the effect
    switchRegistering, \* whether that run of the effect started a registration
    \* ---- useTTSAutoPlay (the version with module-level state) ----
    tts,               \* the module-level state, the audio elements, the RPCs
                       \* in flight and the refs of the hook instances
    ttsEnabled,        \* TTSEnabledAtom
    isBot,             \* the isBot argument
    stream,            \* the messages of the channel, oldest first
    messagesProp,      \* the messages argument: None (undefined) or Some(list)
    nextName,          \* the name the next arriving message gets
    recentFrom,        \* messages named recentFrom or later are under 30 s old
    \* ---- TTSToggle and its useTTS instance ----
    isPlaying,         \* useState(false) of useTTS
    audioRef,          \* useRef(null).current of useTTS: None, or Some(element)
    \* ---- AIThreadAutoOpen ----
    channelID,         \* the channelID the subscribed callback closed over
                       \* (None while the component is not mounted)
    goToThreadCalls,   \* the thread ids goToThread was called with, in order
    lastEvent,         \* the latest ai_thread_created event heard, and what
                       \* the callback did with it
    events,            \* ai_thread_created events heard so far
    \* ---- NotificationSetting ----
    enabled,               \* useState(false): the Toggle's value
    hasPermissionPending,  \* the mount effect's hasPermission() not yet settled
    toggles,               \* the onToggle calls, by call number
    toasts,                \* toast.error calls so far
    \* ---- useSendMessage ----
    selectedMessage,   \* the selectedMessage argument of the current render
    sends,             \* the sendMessage calls, by call number
    \* ---- AddChannel ----
    submits,             \* the onSubmit calls, by call number
    presented,           \* the messages of the toasts presented, in order
    formResets,          \* calls of resetForm so far
    channelListFetches,  \* calls of the channel list's mutate so far
    dismissals,          \* calls of onDismiss so far
    historyStack         \* the paths pushed with history.push, in order

reactionVars == <<myProfile, user, cacheData, cacheC, mutationTs, clock, calls>>
paginationVars == <<messages, lastBatch, replaced, loadingOlderMessages,
                    queuedLoading, olderCalls, olderFetches, deleted, refetched>>

pushVars == <<pushMounted, siteInfo, callMade, chain, chainSite, effectRuns,
              permissionRequests, registerCalls, tokenStore, ravenSubscribed,
              switchedTo, switchRegistering>>

ttsVars == <<tts, ttsEnabled, isBot, stream, messagesProp, nextName, recentFrom>>

toggleVars == <<isPlaying, audioRef>>

aiThreadVars == <<channelID, goToThreadCalls, lastEvent, events>>
notificationVars == <<enabled, hasPermissionPending, toggles, toasts>>
sendVars == <<selectedMessage, sends>>
addChannelVars == <<submits, presented, formResets, channelListFetches,
                    dismissals, historyStack>>

vars == <<reactionVars, paginationVars, pushVars, ttsVars, toggleVars, aiThreadVars, notificationVars, sendVars, addChannelVars>>

\* What an action of one hook leaves alone: the state of the other hooks.
otherThanReaction == <<paginationVars, pushVars, ttsVars, toggleVars, aiThreadVars, notificationVars, sendVars, addChannelVars>>
otherThanPagination == <<reactionVars, pushVars, ttsVars, toggleVars, aiThreadVars, notificationVars, sendVars, addChannelVars>>
otherThanPush == <<reactionVars, paginationVars, ttsVars, toggleVars, aiThreadVars, notificationVars, sendVars, addChannelVars>>
otherThanTTS == <<reactionVars, paginationVars, pushVars, toggleVars, aiThreadVars, notificationVars, sendVars, addChannelVars>>
otherThanTTSAndToggle == <<reactionVars, paginationVars, pushVars, aiThreadVars, notificationVars, sendVars, addChannelVars>>
otherThanAddChannel == <<reactionVars, paginationVars, pushVars, ttsVars, toggleVars, aiThreadVars, notificationVars, sendVars>>
otherThanSend == <<reactionVars, paginationVars, pushVars, ttsVars, toggleVars, aiThreadVars, notificationVars, addChannelVars>>
otherThanNotification == <<reactionVars, paginationVars, pushVars, ttsVars, toggleVars, aiThreadVars, sendVars, addChannelVars>>
otherThanAIThread == <<reactionVars, paginationVars, pushVars, ttsVars, toggleVars, notificationVars, sendVars, addChannelVars>>

----------------------------------------------------------------------------
(***************************************************************************)
(* useReactToMessage                                                       *)
(***************************************************************************)

\* Bounds of the reaction model.
MaxCalls == 2

CurrentUser == "u"
\* The (emoji, is_custom, emoji_name) arguments postReaction is called with.
ReactionArgs ==
    { [emoji |-> "e1", is_custom |-> FALSE, emoji_name |-> None],
      [emoji |-> "e2", is_custom |-> FALSE, emoji_name |-> None],
      [emoji |-> "e1", is_custom |-> FALSE, emoji_name |-> Some("n1")],
      [emoji |-> "e1", is_custom |-> TRUE,  emoji_name |-> None],
      [emoji |-> "x1", is_custom |-> TRUE,  emoji_name |-> Some("n1")] }

\* message_reactions is a JSON string of an object keyed by emoji.  A JavaScript
\* object keeps its string keys in insertion order and JSON.stringify writes
\* them in that order, so the string is modelled by the ordered list of the
\* object's entries; a null column is None, which JSON.parse never sees because
\* of `?? '{}'`.
JSONparse(s) == IF s = None THEN <<>> ELSE s[1]
JSONstringify(obj) == Some(obj)

\* existingReactions[emojiKey]: the position of the entry, 0 when absent.
IndexOfKey(obj, k) ==
    IF \E i \in 1..Len(obj) : obj[i].key = k
    THEN CHOOSE i \in 1..Len(obj) : obj[i].key = k
    ELSE 0

\* delete existingReactions[emojiKey]
DeleteKey(obj, k) == SelectSeq(obj, LAMBDA e : e.key # k)

\* users.includes(name) and users.filter(u => u !== name)
Includes(users, name) == \E i \in 1..Len(users) : users[i] = name
FilterOutNobody(users, name) == users
FilterOut(users, name) == SelectSeq(users, LAMBDA x : x # name)

\* const emojiKey = is_custom ? (emoji_name ?? emoji) : emoji
emojiKeyAlwaysEmoji(emoji, is_custom, emoji_name) == emoji
emojiKey(emoji, is_custom, emoji_name) ==
    IF is_custom THEN (IF emoji_name # None THEN emoji_name[1] ELSE emoji) ELSE emoji

\* The body of the map callback for the message whose name matches.
ToggleReaction(m, userName, emoji, is_custom, emoji_name) ==
    LET existingReactions == JSONparse(m.message_reactions)
        k == emojiKey(emoji, is_custom, emoji_name)
        i == IndexOfKey(existingReactions, k)
        updated ==
            IF i # 0
            THEN IF Includes(existingReactions[i].users, userName)
                 THEN IF existingReactions[i].count = 1
                      THEN DeleteKey(existingReactions, k)
                      ELSE [existingReactions EXCEPT
                                ![i].users = FilterOut(@, userName),
                                ![i].count = @ - 1]
                 ELSE [existingReactions EXCEPT
                                ![i].users = Append(@, userName),
                                ![i].count = @ + 1]
            ELSE Append(existingReactions,
                        [key |-> k, reaction |-> emoji, users |-> <<userName>>,
                         count |-> 1,
                         emoji_name |-> IF emoji_name # None THEN emoji_name[1] ELSE ""])
    IN  [m EXCEPT !.message_reactions = JSONstringify(updated)]

\* What the object passed as data holds after updateMessageWithReaction(data):
\* map builds a new array, JSON.parse a new reactions object and the spread a
\* new message, so nothing reachable from data is written.
dataWrittenInPlace(data, result) == result
dataAfterCall(data, result) == data

\* updateMessageWithReaction(data?): data is None (undefined) or Some(response).
updateMessageWithReaction(data, userName, message, emoji, is_custom, emoji_name) ==
    LET existingMessages == IF data = None THEN <<>> ELSE data[1].messages
        newMessages ==
            [i \in 1..Len(existingMessages) |->
                IF existingMessages[i].name # message
                THEN existingMessages[i]
                ELSE ToggleReaction(existingMessages[i], userName, emoji, is_custom, emoji_name)]
    IN  Some([has_new_messages |-> IF data = None THEN FALSE ELSE data[1].has_new_messages,
              has_old_messages |-> IF data = None THEN TRUE ELSE data[1].has_old_messages,
              messages |-> newMessages])


\* One reaction entry of a message_reactions object.
Entry(k, us, n) == [key |-> k, reaction |-> k, users |-> us, count |-> n, emoji_name |-> ""]

\* The message_reactions column of m1 when the stream is first cached: null, the
\* empty object, entries with and without the current user, and one whose count
\* disagrees with its users list (the code trusts count).
InitReactions ==
    { None,
      Some(<<>>),
      Some(<<Entry("e1", <<"u">>, 1)>>),
      Some(<<Entry("e1", <<"v">>, 1), Entry("n1", <<"v", "u">>, 2)>>),
      Some(<<Entry("e1", <<"u", "v">>, 1)>>) }

\* The cached GetMessagesResponse when the hook mounts: a stream of two
\* messages (the message reacted to is rendered from this cache entry, so the
\* entry is populated when postReaction can be called).
InitStreams ==
    { Some([has_new_messages |-> FALSE, has_old_messages |-> FALSE,
            messages |-> << [name |-> "m1", message_reactions |-> r],
                            [name |-> "m2", message_reactions |-> None] >>])
      : r \in InitReactions }
    \cup
    { Some([has_new_messages |-> TRUE, has_old_messages |-> TRUE,
            messages |-> << [name |-> "m1",
                             message_reactions |-> Some(<<Entry("e2", <<"v">>, 1)>>)],
                            [name |-> "m2",
                             message_reactions |-> Some(<<Entry("e1", <<"u">>, 1)>>)] >>]) }

\* The (message, arguments) pairs postReaction is called with.
PostReactionInputs ==
    { [message |-> "m1", args |-> a] : a \in ReactionArgs } \cup
    { [message |-> "m2", args |-> [emoji |-> "e1", is_custom |-> FALSE, emoji_name |-> None]] }

IdleCall ==
    [st |-> "idle", message |-> "m1",
     args |-> [emoji |-> "e1", is_custom |-> FALSE, emoji_name |-> None],
     ts |-> 0, committed |-> None, rpc |-> "none",
     pre |-> None, shown |-> None, after |-> None, alone |-> FALSE]

CallIds == 1..MaxCalls
InFlight(c) == calls[c].st = "inflight"

\* The options postReaction passes to mutate.
rollbackOnErrorOff == FALSE
rollbackOnError == TRUE
\* revalidate: false -- no re-fetch of the key follows the mutation.

\* optimisticData: (data) => updateMessageWithReaction(data).  SWR calls it with
\* (committedData, displayedData); the callback reads only the first.
optimisticData(committedData, displayedData, userName, message, a) ==
    updateMessageWithReaction(committedData, userName, message,
                              a.emoji, a.is_custom, a.emoji_name)

\* The mutator's result once call.post has succeeded:
\* .then(() => updateMessageWithReaction(data)), data being the committedData SWR
\* passed to the mutator when the mutation started.
MutatorResultOnCurrent(committedData, currentData, userName, message, a) ==
    updateMessageWithReaction(currentData, userName, message,
                              a.emoji, a.is_custom, a.emoji_name)
MutatorResult(committedData, currentData, userName, message, a) ==
    updateMessageWithReaction(committedData, userName, message,
                              a.emoji, a.is_custom, a.emoji_name)

ReactionInit ==
    /\ myProfile \in {None, Some(CurrentUser)}
    /\ user = myProfile
    /\ cacheData \in InitStreams
    /\ cacheC = None
    /\ mutationTs = 0
    /\ clock = 0
    /\ calls = [c \in CallIds |-> IdleCall]

\* useCurrentRavenUser delivers the profile; postReaction was memoised with an
\* empty dependency list and keeps the `user` of the first render.
ProfileLoaded ==
    /\ myProfile = None
    /\ myProfile' = Some(CurrentUser)
    /\ UNCHANGED <<user, cacheData, cacheC, mutationTs, clock, calls>>
    /\ UNCHANGED otherThanReaction

\* postReaction(message, emoji, is_custom, emoji_name), up to the point where
\* mutate awaits the RPC: the guard on user, then SWR's mutate: stamp the
\* mutation, take committedData (state._c, or state.data when _c is undefined),
\* write the optimistic data with _c = committedData, call the mutator (which
\* issues raven.api.reactions.react).
postReaction(c, in) ==
    /\ calls[c].st = "idle"
    /\ \A d \in CallIds : d < c => calls[d].st # "idle"
    /\ IF user = None
       THEN /\ calls' = [calls EXCEPT ![c].st = "skipped",
                                      ![c].message = in.message, ![c].args = in.args,
                                      ![c].pre = cacheData, ![c].after = cacheData]
            /\ UNCHANGED <<cacheData, cacheC, mutationTs, clock>>
       ELSE LET beforeMutationTs == clock + 1
                displayedData == cacheData
                committedData == IF cacheC = None THEN displayedData ELSE cacheC
                optimistic == optimisticData(committedData, displayedData,
                                             user[1], in.message, in.args)
            IN  /\ clock' = beforeMutationTs
                /\ mutationTs' = beforeMutationTs
                /\ cacheData' = optimistic
                /\ cacheC' = committedData
                /\ calls' = [d \in CallIds |->
                               IF d = c
                               THEN [st |-> "inflight", message |-> in.message,
                                     args |-> in.args, ts |-> beforeMutationTs,
                                     committed |-> dataAfterCall(committedData, optimistic),
                                     rpc |-> "pending",
                                     pre |-> displayedData, shown |-> optimistic,
                                     after |-> None,
                                     alone |-> \A e \in CallIds : ~InFlight(e)]
                               ELSE IF InFlight(d)
                                    THEN [calls[d] EXCEPT !.alone = FALSE]
                                    ELSE calls[d]]
    /\ UNCHANGED <<myProfile, user>>
    /\ UNCHANGED otherThanReaction

\* The react RPC of call c succeeds: the mutator resolves with its result.  A
\* mutation that is no longer the latest of the key only returns it; the latest
\* writes it to the cache (populateCache) and clears _c.
RpcSucceeds(c) ==
    /\ InFlight(c)
    /\ LET data == MutatorResult(calls[c].committed, cacheData, user[1],
                                 calls[c].message, calls[c].args)
       IN  IF calls[c].ts # mutationTs
           THEN /\ UNCHANGED <<cacheData, cacheC>>
                /\ calls' = [calls EXCEPT ![c].st = "resolved", ![c].rpc = "ok",
                                           ![c].after = cacheData]
           ELSE /\ cacheData' = data
                /\ cacheC' = None
                /\ calls' = [calls EXCEPT ![c].st = "resolved", ![c].rpc = "ok",
                                           ![c].after = data]
    /\ UNCHANGED <<myProfile, user, mutationTs, clock>>
    /\ UNCHANGED otherThanReaction

\* The react RPC of call c fails: mutate rethrows (throwOnError).  The latest
\* mutation of the key first rolls the cache back to committedData when
\* rollbackOnError is set; an overtaken one leaves the cache alone.
RpcFails(c) ==
    /\ InFlight(c)
    /\ IF calls[c].ts # mutationTs
       THEN /\ UNCHANGED <<cacheData, cacheC>>
            /\ calls' = [calls EXCEPT ![c].st = "rejected", ![c].rpc = "failed",
                                      ![c].after = cacheData]
       ELSE LET restored == IF rollbackOnError THEN calls[c].committed ELSE cacheData
            IN  /\ cacheData' = restored
                /\ cacheC' = None
                /\ calls' = [calls EXCEPT ![c].st = "rejected", ![c].rpc = "failed",
                                          ![c].after = restored]
    /\ UNCHANGED <<myProfile, user, mutationTs, clock>>
    /\ UNCHANGED otherThanReaction

ReactionNext ==
    \/ ProfileLoaded
    \/ \E c \in CallIds, in \in PostReactionInputs : postReaction(c, in)
    \/ \E c \in CallIds : RpcSucceeds(c)
    \/ \E c \in CallIds : RpcFails(c)


----------------------------------------------------------------------------
(***************************************************************************)
(* useChatPagination                                                       *)
(***************************************************************************)

\* Bounds of the pagination model.
MaxBatch == 2
MaxOlderCalls == 2

\* The messages the server can return: a message keeps its name and creation
\* time (m2 and m3 were created at the same time), and modified changes when it
\* is edited.  A message as received carries no key.
Creation(name) == IF name = "m1" THEN 1 ELSE 2
ServerMessage(n, v) == [name |-> n, creation |-> Creation(n), modified |-> v, key |-> None]
ServerMessages ==
    { ServerMessage("m1", 1), ServerMessage("m1", 2),
      ServerMessage("m2", 1), ServerMessage("m3", 1) }

RECURSIVE SeqsUpTo(_, _)
SeqsUpTo(S, n) ==
    IF n = 0 THEN { <<>> }
    ELSE SeqsUpTo(S, n - 1) \cup
         { Append(q, x) : q \in { r \in SeqsUpTo(S, n - 1) : Len(r) = n - 1 }, x \in S }

Batches == SeqsUpTo(ServerMessages, MaxBatch)

\* mergedMessages.findIndex((message) => message.name === newMessage.name),
\* 0 standing for -1.
findIndex(list, name) ==
    IF \E i \in 1..Len(list) : list[i].name = name
    THEN CHOOSE i \in 1..Len(list) :
            /\ list[i].name = name
            /\ \A j \in 1..(i - 1) : list[j].name # name
    ELSE 0

\* newMessages.forEach(...): push the message, or replace the entry of its name.
RECURSIVE MergeAlwaysPush(_, _)
MergeAlwaysPush(mergedMessages, newMessages) ==
    IF newMessages = <<>> THEN mergedMessages
    ELSE MergeAlwaysPush(Append(mergedMessages, Head(newMessages)), Tail(newMessages))
RECURSIVE Merge(_, _)
Merge(mergedMessages, newMessages) ==
    IF newMessages = <<>> THEN mergedMessages
    ELSE LET newMessage == Head(newMessages)
             index == findIndex(mergedMessages, newMessage.name)
         IN  Merge(IF index = 0
                   THEN Append(mergedMessages, newMessage)
                   ELSE [mergedMessages EXCEPT ![index] = newMessage],
                   Tail(newMessages))

\* mergedMessages.sort((a, b) => time(a.creation) - time(b.creation)): ascending
\* and stable.
RECURSIVE InsertByCreation(_, _)
InsertByCreation(sorted, m) ==
    IF sorted = <<>> THEN <<m>>
    ELSE IF Head(sorted).creation <= m.creation
         THEN <<Head(sorted)>> \o InsertByCreation(Tail(sorted), m)
         ELSE <<m>> \o sorted
RECURSIVE SortByCreation(_)
SortByCreation(list) ==
    IF list = <<>> THEN <<>>
    ELSE InsertByCreation(SortByCreation(SubSeq(list, 1, Len(list) - 1)), list[Len(list)])

\* key: `${message.name}_${message.modified}`
WithKey(m) == [m EXCEPT !.key = Some(<<m.name, "_", m.modified>>)]

\* What the updater leaves in prevMessages, which it merges into and sorts in
\* place (mergedMessages is the same array).
MutatedPrev(prevMessages, newMessages) ==
    SortByCreation(Merge(prevMessages, newMessages))

\* The updater passed to setMessages: its return value.
Updater(prevMessages, newMessages) ==
    LET sorted == MutatedPrev(prevMessages, newMessages)
    IN  [i \in 1..Len(sorted) |-> WithKey(sorted[i])]

PaginationInit ==
    /\ messages = <<>>
    /\ lastBatch = <<>>
    /\ replaced = FALSE
    /\ loadingOlderMessages = FALSE
    /\ queuedLoading = None
    /\ olderCalls = 0
    /\ olderFetches = 0
    /\ deleted = None
    /\ refetched = FALSE

\* addToMessages(newMessages).  React may run an updater twice on the same
\* prevMessages (StrictMode); the second run then starts from the array the
\* first one mutated.  The server returns no message that has been deleted.
addToMessages(newMessages, twice) ==
    /\ \A i \in 1..Len(newMessages) : Some(newMessages[i].name) # deleted
    /\ refetched' = (deleted # None)
    /\ messages' = IF twice
                   THEN Updater(MutatedPrev(messages, newMessages), newMessages)
                   ELSE Updater(messages, newMessages)
    /\ lastBatch' = newMessages
    /\ replaced' = \E i \in 1..Len(newMessages), j \in 1..Len(messages) :
                      /\ messages[j].name = newMessages[i].name
                      /\ messages[j].modified # newMessages[i].modified
    /\ UNCHANGED <<loadingOlderMessages, queuedLoading, olderCalls, olderFetches, deleted>>
    /\ UNCHANGED otherThanPagination

\* loadOlderMessages(): the guard reads the loadingOlderMessages of the render
\* that created the function; the two setLoadingOlderMessages calls queue true
\* and then false; between them nothing is fetched (line 68 is a TODO).
loadOlderMessages ==
    /\ olderCalls < MaxOlderCalls
    /\ olderCalls' = olderCalls + 1
    /\ IF loadingOlderMessages
       THEN UNCHANGED queuedLoading
       ELSE queuedLoading' = Some(FALSE)
    /\ UNCHANGED <<messages, lastBatch, replaced, loadingOlderMessages, olderFetches,
                   deleted, refetched>>
    /\ UNCHANGED otherThanPagination

\* React renders the component again with the queued state applied.
Rerender ==
    /\ queuedLoading # None
    /\ loadingOlderMessages' = queuedLoading[1]
    /\ queuedLoading' = None
    /\ UNCHANGED <<messages, lastBatch, replaced, olderCalls, olderFetches,
                   deleted, refetched>>
    /\ UNCHANGED otherThanPagination

\* A message of the list is deleted on the server and the delete event reaches
\* the client.  The hook subscribes to no event and has no function that
\* removes a message: its state stays as it is.
message_deleted(name) ==
    /\ deleted = None
    /\ \E i \in 1..Len(messages) : messages[i].name = name
    /\ deleted' = Some(name)
    /\ UNCHANGED <<messages, lastBatch, replaced, loadingOlderMessages, queuedLoading,
                   olderCalls, olderFetches, refetched>>
    /\ UNCHANGED otherThanPagination

PaginationNext ==
    \/ \E name \in {m.name : m \in ServerMessages} : message_deleted(name)
    \/ \E b \in Batches, twice \in BOOLEAN : addToMessages(b, twice)
    \/ loadOlderMessages
    \/ Rerender

----------------------------------------------------------------------------
(***************************************************************************)
(* useFirebasePushTokenListener                                            *)
(***************************************************************************)

\* Bounds of the push model.
MaxEffectRuns == 4

Sites == {"s1", "s2"}
\* What messaging.requestPermission() can resolve with.
AuthorizationStatuses == {"AUTHORIZED", "DENIED", "PROVISIONAL"}

PushInit ==
    /\ pushMounted = FALSE
    /\ siteInfo \in {None, Some("s1")}
    /\ callMade = FALSE
    /\ chain = "none"
    /\ chainSite = None
    /\ effectRuns = 0
    /\ permissionRequests = 0
    /\ registerCalls = 0
    /\ tokenStore = {}
    /\ ravenSubscribed = {}
    /\ switchedTo = None
    /\ switchRegistering = FALSE

\* if (callMade.current) return
AlreadyMadeNever == FALSE
AlreadyMade == callMade

\* The body of the effect, run with the siteInfo of the render: the guard on
\* callMade, then messaging.requestPermission() when there is a site.
\* newSite is the siteInfo of that render and switched tells whether it is a
\* site the hook did not have in the previous render.
EffectBody(newSite, switched) ==
    /\ effectRuns' = effectRuns + 1
    /\ IF AlreadyMade
       THEN /\ UNCHANGED <<callMade, chain, chainSite, permissionRequests>>
            /\ IF switched
               THEN switchedTo' = newSite /\ switchRegistering' = FALSE
               ELSE UNCHANGED <<switchedTo, switchRegistering>>
       ELSE /\ callMade' = TRUE
            /\ IF newSite # None
               THEN /\ chain' = "permission"
                    /\ chainSite' = newSite
                    /\ permissionRequests' = permissionRequests + 1
               ELSE UNCHANGED <<chain, chainSite, permissionRequests>>
            /\ IF switched
               THEN switchedTo' = newSite /\ switchRegistering' = (newSite # None)
               ELSE UNCHANGED <<switchedTo, switchRegistering>>
    /\ UNCHANGED <<registerCalls, tokenStore, ravenSubscribed>>

\* The hook mounts: the effect runs for the first time.
PushMount ==
    /\ ~pushMounted
    /\ pushMounted' = TRUE
    /\ UNCHANGED siteInfo
    /\ EffectBody(siteInfo, siteInfo # None)
    /\ UNCHANGED otherThanPush

\* useSiteContext() returns another value (a site becomes available, another
\* site is chosen, the same site in a new object, or none): the dependency
\* [siteInfo] changed, so the effect runs again.
SiteInfoChanges(newSite) ==
    /\ pushMounted
    /\ effectRuns < MaxEffectRuns
    /\ siteInfo' = newSite
    /\ EffectBody(newSite, newSite # None /\ newSite # siteInfo)
    /\ UNCHANGED pushMounted
    /\ UNCHANGED otherThanPush

\* requestPermission() settles: with AUTHORIZED the chain calls getToken(); with
\* any other status, or a rejection, it ends.
PermissionSettles(status, rejected) ==
    /\ chain = "permission"
    /\ chain' = IF ~rejected /\ status = "AUTHORIZED" THEN "token" ELSE "done"
    /\ UNCHANGED <<pushMounted, siteInfo, callMade, chainSite, effectRuns,
                   permissionRequests, registerCalls, tokenStore, ravenSubscribed,
                   switchedTo, switchRegistering>>
    /\ UNCHANGED otherThanPush

\* getToken() settles: with a token the chain posts register_device_token.
TokenSettles(ok) ==
    /\ chain = "token"
    /\ IF ok
       THEN chain' = "register" /\ registerCalls' = registerCalls + 1
       ELSE chain' = "done" /\ UNCHANGED registerCalls
    /\ UNCHANGED <<pushMounted, siteInfo, callMade, chainSite, effectRuns,
                   permissionRequests, tokenStore, ravenSubscribed,
                   switchedTo, switchRegistering>>
    /\ UNCHANGED otherThanPush

\* register_device_token settles: on success the backend of the chain's site
\* holds the token and the chain posts raven.api.notification.subscribe.
RegisterSettles(ok) ==
    /\ chain = "register"
    /\ IF ok
       THEN chain' = "subscribe" /\ tokenStore' = tokenStore \cup {chainSite[1]}
       ELSE chain' = "done" /\ UNCHANGED tokenStore
    /\ UNCHANGED <<pushMounted, siteInfo, callMade, chainSite, effectRuns,
                   permissionRequests, registerCalls, ravenSubscribed,
                   switchedTo, switchRegistering>>
    /\ UNCHANGED otherThanPush

\* raven.api.notification.subscribe settles; a failure is logged and skipped.
SubscribeSettles(ok) ==
    /\ chain = "subscribe"
    /\ chain' = "done"
    /\ ravenSubscribed' = IF ok THEN ravenSubscribed \cup {chainSite[1]} ELSE ravenSubscribed
    /\ UNCHANGED <<pushMounted, siteInfo, callMade, chainSite, effectRuns,
                   permissionRequests, registerCalls, tokenStore,
                   switchedTo, switchRegistering>>
    /\ UNCHANGED otherThanPush

PushNext ==
    \/ PushMount
    \/ \E newSite \in {None} \cup {Some(x) : x \in Sites} : SiteInfoChanges(newSite)
    \/ \E status \in AuthorizationStatuses, rejected \in BOOLEAN :
          PermissionSettles(status, rejected)
    \/ \E ok \in BOOLEAN : TokenSettles(ok)
    \/ \E ok \in BOOLEAN : RegisterSettles(ok)
    \/ \E ok \in BOOLEAN : SubscribeSettles(ok)

----------------------------------------------------------------------------
(***************************************************************************)
(* useTTSAutoPlay, the version that keeps globalIsPlaying,                 *)
(* globalLastProcessedMessage and globalAudio at module level.             *)
(*                                                                         *)
(* The component that calls the hook mounts, unmounts and mounts again: an *)
(* instance's refs live from its mount to its unmount, the module-level    *)
(* state lives as long as the page.                                        *)
(***************************************************************************)

\* Bounds of the text-to-speech model.
MaxMessages == 2
MaxTtsCalls == 3

Instances == {1}
AudioIds == 1..MaxTtsCalls
Names == 1..MaxMessages

\* A stream entry.  kind is "date" for a date block, "user" for a message that
\* is not a bot's or has no text, "bot" for a bot message whose text has words
\* to speak, "blank" for a bot message whose text cleanTextForTTS empties (only
\* emojis or markup).  The date block is named 0.
DateBlock == [name |-> 0, kind |-> "date"]
MessageKinds == {"user", "bot", "blank"}

\* m.message_type !== 'date' && m.message_type !== 'System'
IsActual(m) == m.kind # "date"
actualMessages(msgs) ==
    IF msgs = None THEN None ELSE Some(SelectSeq(msgs[1], IsActual))

\* latestMessage.is_bot_message === 1 && latestMessage.text
IsBotWithText(m) == m.kind \in {"bot", "blank"}
\* cleanTextForTTS(rawText).trim() is not empty
cleanedTextNotEmpty(m) == m.kind = "bot"

NoInstance ==
    [mounted |-> FALSE, initialMessageCount |-> None, previousIsBot |-> FALSE,
     sawList |-> FALSE, seenUpTo |-> 0]

\* The state when the module has been loaded and no instance is mounted.
TTSLoaded ==
    [globalIsPlaying |-> FALSE,
     globalLastProcessedMessage |-> None,
     globalAudio |-> None,
     audios |-> [a \in AudioIds |-> [st |-> "none", play |-> "none"]],
     rpcs |-> 0,
     generated |-> [n \in Names |-> 0],
     total |-> 0,
     readInitial |-> FALSE,
     inst |-> [i \in Instances |-> NoInstance]]

\* (now - new Date(creation).getTime()) < 30000
isRecent(m, from) == m.name >= from

\* call({ text: cleanedText }): one more nora.api.tts.generate_audio in flight.
\* generated counts the calls per message name; readInitial records a call for
\* a message that instance i found in the stream at its initial load.
call(s, i, m) ==
    [s EXCEPT !.rpcs = @ + 1,
              !.generated[m.name] = @ + 1,
              !.total = @ + 1,
              !.readInitial = @ \/ (m.name <= s.inst[i].seenUpTo)]

\* An audio element is "none" before it is created, "playing" after play()
\* and "stopped" once paused, ended or failed; its play() promise is "pending",
\* "resolved" when playback has begun, "aborted" when pause() came first and
\* the rejection has not been delivered yet, and "settled" afterwards.
Stopped == [st |-> "stopped", play |-> "settled"]

\* audio.pause(): a playing element stops; its play() promise, when still
\* pending, will be rejected with an AbortError.
pause(audios, a) ==
    IF audios[a].st = "playing"
    THEN [audios EXCEPT ![a] = IF @.play = "pending"
                               THEN [st |-> "stopped", play |-> "aborted"]
                               ELSE Stopped]
    ELSE audios

\* if (globalAudio) { globalAudio.pause(); globalAudio = null }
StopPrevious(s) ==
    IF s.globalAudio # None
    THEN [s EXCEPT !.audios = pause(@, s.globalAudio[1]), !.globalAudio = None]
    ELSE s

\* The .then / .catch of call(): on success with an audio_url stop the previous
\* audio, create the next element, make it globalAudio and play() it; otherwise
\* clear globalIsPlaying.
OnResponse(s, ok) ==
    LET r == [s EXCEPT !.rpcs = @ - 1]
    IN  IF ok
        THEN LET p == StopPrevious(r)
                 a == CHOOSE x \in AudioIds :
                        /\ p.audios[x].st = "none"
                        /\ \A y \in AudioIds : y < x => p.audios[y].st # "none"
             IN  [p EXCEPT !.audios[a] = [st |-> "playing", play |-> "pending"],
                           !.globalAudio = Some(a)]
        ELSE [r EXCEPT !.globalIsPlaying = FALSE]

\* audio.onended, audio.onerror and the .catch of audio.play()
OnAudioDoneKeepsFlag(s) ==
    [s EXCEPT !.globalAudio = None]
OnAudioDone(s) ==
    [s EXCEPT !.globalIsPlaying = FALSE, !.globalAudio = None]

\* What the render of instance i notes for the properties: the messages in the
\* first non-empty list the instance sees (again after the list was emptied).
\* Names are given in order of arrival and no message comes back, so these are
\* the messages named up to the latest name of that list.
Sees(s, i, msgs) ==
    IF msgs = None \/ msgs[1] = <<>>
    THEN [s EXCEPT !.inst[i].sawList = FALSE, !.inst[i].seenUpTo = 0]
    ELSE IF s.inst[i].sawList
         THEN s
         ELSE [s EXCEPT !.inst[i].sawList = TRUE,
                        !.inst[i].seenUpTo = msgs[1][Len(msgs[1])].name]

\* Lines 145-191 and 325-368: mark the message processed, set globalIsPlaying
\* and call the API, or clear the flag again when the cleaned text is empty.
PlayMissed(s, i, m) ==
    LET marked == [s EXCEPT !.globalLastProcessedMessage = Some(m.name),
                            !.globalIsPlaying = TRUE]
    IN  IF cleanedTextNotEmpty(m)
        THEN call(marked, i, m)
        ELSE [marked EXCEPT !.globalIsPlaying = FALSE]

\* The first effect (lines 102-285), for instance i with arguments p.
InitialLoadPlays(s, i, p, from) ==
    LET list == actualMessages(p.messages)[1]
        latestMessage == list[Len(list)]
    IN  /\ IsBotWithText(latestMessage)
        /\ s.globalLastProcessedMessage # Some(latestMessage.name)
        /\ ~s.globalIsPlaying
        /\ isRecent(latestMessage, from)

MainEffect(s, i, p, from) ==
    IF ~p.ttsEnabled \/ ~p.isBot THEN s
    ELSE IF actualMessages(p.messages) = None \/ actualMessages(p.messages)[1] = <<>> THEN s
    ELSE
    LET list == actualMessages(p.messages)[1]
        latestMessage == list[Len(list)]
    IN  IF s.inst[i].initialMessageCount = None
        THEN LET counted == [s EXCEPT !.inst[i].initialMessageCount = Some(Len(list))]
             IN  IF InitialLoadPlays(s, i, p, from)
                 THEN PlayMissed(counted, i, latestMessage)
                 ELSE [counted EXCEPT !.globalLastProcessedMessage = Some(latestMessage.name)]
        ELSE IF Len(list) <= s.inst[i].initialMessageCount[1] THEN s
        ELSE IF s.globalLastProcessedMessage = Some(latestMessage.name) THEN s
        ELSE IF ~IsBotWithText(latestMessage)
             THEN [s EXCEPT !.globalLastProcessedMessage = Some(latestMessage.name)]
        ELSE IF s.globalIsPlaying THEN s
        ELSE LET marked == [s EXCEPT !.globalLastProcessedMessage = Some(latestMessage.name)]
             IN  IF ~cleanedTextNotEmpty(latestMessage)
                 THEN marked
                 ELSE call([marked EXCEPT !.globalIsPlaying = TRUE], i, latestMessage)

\* The second effect (lines 292-296).
ResetEffect(s, i, p) ==
    IF p.messages = None \/ p.messages[1] = <<>>
    THEN [s EXCEPT !.inst[i].initialMessageCount = None]
    ELSE s

\* The third effect (lines 300-376).
IsBotEffect(s, i, p, from) ==
    LET am == actualMessages(p.messages)
        done ==
            IF p.isBot /\ ~s.inst[i].previousIsBot /\ p.ttsEnabled /\ am # None /\ am[1] # <<>>
            THEN LET list == am[1]
                     bots == {k \in 1..Len(list) : IsBotWithText(list[k])}
                     played ==
                        IF bots = {} THEN s
                        ELSE LET latestBotMessage ==
                                     list[CHOOSE k \in bots : \A j \in bots : j <= k]
                             IN  IF /\ s.globalLastProcessedMessage # Some(latestBotMessage.name)
                                    /\ ~s.globalIsPlaying
                                    /\ isRecent(latestBotMessage, from)
                                 THEN PlayMissed(s, i, latestBotMessage)
                                 ELSE s
                 IN  [played EXCEPT !.inst[i].initialMessageCount = Some(Len(list))]
            ELSE s
    IN  [done EXCEPT !.inst[i].previousIsBot = p.isBot]

\* The cleanup of the fourth effect (lines 379-387), and the end of the
\* instance's refs.
Cleanup(s, i) ==
    [StopPrevious(s) EXCEPT !.globalIsPlaying = FALSE, !.inst[i] = NoInstance]

\* The effects instance i runs after a render with arguments p, in the order
\* they are declared; the second one only when messages changed.
RunEffects(s, i, p, from, messagesChanged) ==
    LET a == MainEffect(Sees(s, i, p.messages), i, p, from)
        b == IF messagesChanged THEN ResetEffect(a, i, p) ELSE a
    IN  IsBotEffect(b, i, p, from)

\* The mounted instances run their effects one after the other, in order.
RECURSIVE RunAll(_, _, _, _, _)
RunAll(s, order, p, from, messagesChanged) ==
    IF order = <<>> THEN s
    ELSE RunAll(RunEffects(s, Head(order), p, from, messagesChanged),
                Tail(order), p, from, messagesChanged)

Mounted(s) == {i \in Instances : s.inst[i].mounted}
Orders(s) ==
    { q \in SeqsUpTo(Instances, Cardinality(Instances)) :
        /\ Len(q) = Cardinality(Mounted(s))
        /\ {q[k] : k \in 1..Len(q)} = Mounted(s) }

Props == [ttsEnabled |-> ttsEnabled, isBot |-> isBot, messages |-> messagesProp]

TTSInit ==
    /\ tts = TTSLoaded
    /\ ttsEnabled \in BOOLEAN
    /\ isBot \in BOOLEAN
    /\ \E k \in {"none"} \cup MessageKinds :
          /\ stream = IF k = "none" THEN <<>> ELSE <<DateBlock, [name |-> 1, kind |-> k]>>
          /\ nextName = IF k = "none" THEN 1 ELSE 2
    /\ messagesProp = None
    /\ recentFrom \in 1..nextName

\* A render whose arguments (nt, nb, nm) differ from the last one's: every
\* mounted instance runs its effects.
Rendered(nt, nb, nm, messagesChanged) ==
    /\ \E order \in Orders(tts) :
          tts' = RunAll(tts, order,
                        [ttsEnabled |-> nt, isBot |-> nb, messages |-> nm],
                        recentFrom, messagesChanged)
    /\ tts'.total <= MaxTtsCalls
    /\ ttsEnabled' = nt
    /\ isBot' = nb
    /\ messagesProp' = nm

\* An instance mounts: previousIsBotRef starts at isBot, and all effects run.
TTSMount(i) ==
    /\ ~tts.inst[i].mounted
    /\ tts' = RunEffects([tts EXCEPT !.inst[i] = [NoInstance EXCEPT !.mounted = TRUE,
                                                                  !.previousIsBot = isBot]],
                         i, Props, recentFrom, TRUE)
    /\ tts'.total <= MaxTtsCalls
    /\ UNCHANGED <<ttsEnabled, isBot, stream, messagesProp, nextName, recentFrom>>
    /\ UNCHANGED otherThanTTS

TTSUnmount(i) ==
    /\ tts.inst[i].mounted
    /\ tts' = Cleanup(tts, i)
    /\ UNCHANGED <<ttsEnabled, isBot, stream, messagesProp, nextName, recentFrom>>
    /\ UNCHANGED otherThanTTS

\* The stream of the channel is delivered (first load, or again after a change
\* of channel or a revalidation): messages is a new array.
MessagesLoaded ==
    /\ Rendered(ttsEnabled, isBot, Some(stream), TRUE)
    /\ UNCHANGED <<stream, nextName, recentFrom>>
    /\ UNCHANGED otherThanTTS

\* messages becomes undefined (the channel changes, the stream is refetched).
MessagesCleared ==
    /\ messagesProp # None
    /\ Rendered(ttsEnabled, isBot, None, TRUE)
    /\ UNCHANGED <<stream, nextName, recentFrom>>
    /\ UNCHANGED otherThanTTS

\* A message arrives in the channel.
NewMessage(kind) ==
    /\ nextName <= MaxMessages
    /\ LET grown == (IF stream = <<>> THEN <<DateBlock>> ELSE stream)
                        \o <<[name |-> nextName, kind |-> kind]>>
       IN  /\ stream' = grown
           /\ IF messagesProp = None
              THEN UNCHANGED <<tts, ttsEnabled, isBot, messagesProp>>
              ELSE Rendered(ttsEnabled, isBot, Some(grown), TRUE)
    /\ nextName' = nextName + 1
    /\ UNCHANGED recentFrom
    /\ UNCHANGED otherThanTTS

\* The latest message is deleted.
MessageDeleted ==
    /\ Len(stream) >= 2
    /\ LET shrunk == SubSeq(stream, 1, Len(stream) - 1)
       IN  /\ stream' = shrunk
           /\ IF messagesProp = None
              THEN UNCHANGED <<tts, ttsEnabled, isBot, messagesProp>>
              ELSE Rendered(ttsEnabled, isBot, Some(shrunk), TRUE)
    /\ UNCHANGED <<nextName, recentFrom>>
    /\ UNCHANGED otherThanTTS

\* The channel's members load or change: isBot flips.
IsBotChanges ==
    /\ Rendered(ttsEnabled, ~isBot, messagesProp, FALSE)
    /\ UNCHANGED <<stream, nextName, recentFrom>>
    /\ UNCHANGED otherThanTTS

\* TTSEnabledAtom is switched.
TTSEnabledChanges ==
    /\ Rendered(~ttsEnabled, isBot, messagesProp, FALSE)
    /\ UNCHANGED <<stream, nextName, recentFrom>>
    /\ UNCHANGED otherThanTTS

\* The oldest message still under 30 seconds old passes that age.
TimePasses ==
    /\ recentFrom < nextName
    /\ recentFrom' = recentFrom + 1
    /\ UNCHANGED <<tts, ttsEnabled, isBot, stream, messagesProp, nextName>>
    /\ UNCHANGED otherThanTTS

\* A generate_audio call settles: with success and an audio_url, or without.
GenerateAudioSettles(ok) ==
    /\ tts.rpcs > 0
    /\ tts' = OnResponse(tts, ok)
    /\ UNCHANGED <<ttsEnabled, isBot, stream, messagesProp, nextName, recentFrom>>
    /\ UNCHANGED otherThanTTS

\* Playback of element a begins: its play() promise resolves.
PlayStarts(a) ==
    /\ tts.audios[a].st = "playing" /\ tts.audios[a].play = "pending"
    /\ tts' = [tts EXCEPT !.audios[a].play = "resolved"]
    /\ UNCHANGED <<ttsEnabled, isBot, stream, messagesProp, nextName, recentFrom>>
    /\ UNCHANGED otherThanTTS

\* The browser refuses to play element a: play() rejects and its .catch runs.
PlayRefused(a) ==
    /\ tts.audios[a].st = "playing" /\ tts.audios[a].play = "pending"
    /\ tts' = OnAudioDone([tts EXCEPT !.audios[a] = Stopped])
    /\ UNCHANGED <<ttsEnabled, isBot, stream, messagesProp, nextName, recentFrom>>
    /\ UNCHANGED otherThanTTS

\* The play() promise of an element paused before playback began is rejected
\* (AbortError) and its .catch runs.
PlayAborted(a) ==
    /\ tts.audios[a].play = "aborted"
    /\ tts' = OnAudioDone([tts EXCEPT !.audios[a] = Stopped])
    /\ UNCHANGED <<ttsEnabled, isBot, stream, messagesProp, nextName, recentFrom>>
    /\ UNCHANGED otherThanTTS

\* Element a plays to its end: onended runs.
AudioEnded(a) ==
    /\ tts.audios[a].st = "playing" /\ tts.audios[a].play = "resolved"
    /\ tts' = OnAudioDone([tts EXCEPT !.audios[a] = Stopped])
    /\ UNCHANGED <<ttsEnabled, isBot, stream, messagesProp, nextName, recentFrom>>
    /\ UNCHANGED otherThanTTS

\* Element a fails while playing: onerror runs.
AudioError(a) ==
    /\ tts.audios[a].st = "playing" /\ tts.audios[a].play = "resolved"
    /\ tts' = OnAudioDone([tts EXCEPT !.audios[a] = Stopped])
    /\ UNCHANGED <<ttsEnabled, isBot, stream, messagesProp, nextName, recentFrom>>
    /\ UNCHANGED otherThanTTS

(***************************************************************************)
(* TTSToggle, the switch of TTSEnabledAtom, with its own useTTS instance.  *)
(* TTSToggle takes ttsEnabled, setTTSEnabled, isPlaying and stop from      *)
(* useTTS and never calls generateAndPlay, the only place that creates an  *)
(* element for audioRef and (in audio.onplay) sets isPlaying.              *)
(***************************************************************************)
useTTSInit ==
    /\ isPlaying = FALSE
    /\ audioRef = None

\* stop() of useTTS: pause and drop the element of audioRef, clear isPlaying.
\* The elements of useTTSAutoPlay are not reachable from audioRef.
stop ==
    /\ audioRef' = None
    /\ isPlaying' = FALSE

\* handleToggle(checked), called by the Switch with the opposite of its
\* checked value: setTTSEnabled(checked), then stop() when switching off
\* while isPlaying.  The hooks that read the atom render again.
handleToggle(checked) ==
    /\ checked = ~ttsEnabled
    /\ Rendered(checked, isBot, messagesProp, FALSE)
    /\ IF ~checked /\ isPlaying THEN stop ELSE UNCHANGED toggleVars
    /\ UNCHANGED <<stream, nextName, recentFrom>>
    /\ UNCHANGED otherThanTTSAndToggle

TTSNext ==
    \/ \E checked \in BOOLEAN : handleToggle(checked)
    \/ \E i \in Instances : TTSMount(i)
    \/ \E i \in Instances : TTSUnmount(i)
    \/ MessagesLoaded
    \/ MessagesCleared
    \/ \E kind \in MessageKinds : NewMessage(kind)
    \/ MessageDeleted
    \/ IsBotChanges
    \/ TTSEnabledChanges
    \/ TimePasses
    \/ \E ok \in BOOLEAN : GenerateAudioSettles(ok)
    \/ \E a \in AudioIds : PlayStarts(a)
    \/ \E a \in AudioIds : PlayRefused(a)
    \/ \E a \in AudioIds : PlayAborted(a)
    \/ \E a \in AudioIds : AudioEnded(a)
    \/ \E a \in AudioIds : AudioError(a)

----------------------------------------------------------------------------
(***************************************************************************)
(* AIThreadAutoOpen                                                        *)
(*                                                                         *)
(* useFrappeEventListener subscribes the callback of the latest render to  *)
(* the socket event and drops the one of the render before, so the         *)
(* callback that hears an event has closed over the channelID of the       *)
(* latest render.                                                          *)
(***************************************************************************)

\* Bound of the model: the events delivered.
MaxEvents == 3

Channels == {"c1", "c2"}

\* The payload of an ai_thread_created event.  A field may be missing (None);
\* thread_id and channel_id are strings, possibly empty.
AIThreadEvents ==
    [is_ai_thread : {None, Some(TRUE), Some(FALSE)},
     thread_id : {None, Some(""), Some("t1"), Some("t2")},
     channel_id : {None, Some(""), Some("c1"), Some("c2")}]

\* JavaScript truthiness of an optional boolean and of an optional string.
TruthyBool(x) == x # None /\ x[1]
TruthyString(x) == x # None /\ x[1] # ""

\* channelID === data.channel_id
anyChannel(id, data) == TRUE
sameChannel(id, data) == data.channel_id = Some(id)

\* data.is_ai_thread && data.thread_id && data.channel_id && channelID === data.channel_id
shouldOpen(id, data) ==
    /\ TruthyBool(data.is_ai_thread)
    /\ TruthyString(data.thread_id)
    /\ TruthyString(data.channel_id)
    /\ sameChannel(id, data)

AIThreadInit ==
    /\ channelID = None
    /\ goToThreadCalls = <<>>
    /\ lastEvent = None
    /\ events = 0

\* The component mounts for a channel, or renders again with another channelID.
AIThreadRender(id) ==
    /\ channelID # Some(id)
    /\ channelID' = Some(id)
    /\ UNCHANGED <<goToThreadCalls, lastEvent, events>>
    /\ UNCHANGED otherThanAIThread

AIThreadUnmount ==
    /\ channelID # None
    /\ channelID' = None
    /\ UNCHANGED <<goToThreadCalls, lastEvent, events>>
    /\ UNCHANGED otherThanAIThread

\* The socket delivers ai_thread_created to the mounted component.  lastEvent
\* keeps the payload, the channelID the callback saw and whether it navigated.
ai_thread_created(data) ==
    /\ channelID # None
    /\ events < MaxEvents
    /\ events' = events + 1
    /\ LET open == shouldOpen(channelID[1], data)
       IN  /\ goToThreadCalls' = IF open THEN Append(goToThreadCalls, data.thread_id[1])
                                         ELSE goToThreadCalls
           /\ lastEvent' = Some([data |-> data, channelID |-> channelID[1], opened |-> open])
    /\ UNCHANGED channelID
    /\ UNCHANGED otherThanAIThread

AIThreadNext ==
    \/ \E id \in Channels : AIThreadRender(id)
    \/ AIThreadUnmount
    \/ \E data \in AIThreadEvents : ai_thread_created(data)

(***************************************************************************)
(* NotificationSetting (unnamed/part_001)                                  *)
(*                                                                         *)
(* onToggle is an async function: each await is a point where other        *)
(* handlers run, so one call is a chain of steps, one per awaited promise. *)
(* A call's record keeps where the call waits (at) and what each promise   *)
(* gave it; `before` and `after` are the values of `enabled` around the    *)
(* step that ended the call, `wrote` tells whether the call has called     *)
(* setEnabled and `toasted` whether it has called toast.error.             *)
(***************************************************************************)
MaxToggles == 2

ToggleCalls == 1..MaxToggles

\* What messaging.hasPermission() and messaging.requestPermission() resolve with.
PermissionStatuses == {"NOT_DETERMINED", "DENIED", "AUTHORIZED", "PROVISIONAL", "EPHEMERAL"}

NoToggle ==
    [at |-> "idle", newValue |-> FALSE, token |-> "none", status |-> "none",
     primary |-> "none", secondary |-> "none",
     before |-> FALSE, after |-> FALSE, wrote |-> FALSE, toasted |-> FALSE]

NotificationInit ==
    /\ enabled = FALSE
    /\ hasPermissionPending = TRUE
    /\ toggles = [c \in ToggleCalls |-> NoToggle]
    /\ toasts = 0

\* Mutation of permitted: every status lets the call go on.
permittedAlways(authorizationStatus) == TRUE

\* The negation of the test of lines 37-40.
permitted(authorizationStatus) ==
    authorizationStatus \in {"AUTHORIZED", "EPHEMERAL"}

\* toast.error(...) followed by the end of the call: the early returns of
\* lines 32-33 and 41-42 and the catch block of lines 81-83.
toastAndReturn(c, run) ==
    /\ toggles' = [toggles EXCEPT ![c] = [run EXCEPT !.at = "returned",
                       !.before = enabled, !.after = enabled, !.toasted = TRUE]]
    /\ toasts' = toasts + 1
    /\ UNCHANGED enabled

\* The mount effect's messaging.hasPermission() resolves.
hasPermissionSettles(hasPermission) ==
    /\ hasPermissionPending
    /\ hasPermissionPending' = FALSE
    /\ enabled' = (hasPermission = "AUTHORIZED")
    /\ UNCHANGED <<toggles, toasts>>
    /\ UNCHANGED otherThanNotification

\* The Toggle calls onToggle(newValue): the call runs up to await getToken().
onToggle(c, newValue) ==
    /\ toggles[c].at = "idle"
    /\ \A d \in ToggleCalls : d < c => toggles[d].at # "idle"
    /\ toggles' = [toggles EXCEPT ![c] = [@ EXCEPT !.at = "getToken", !.newValue = newValue]]
    /\ UNCHANGED <<enabled, hasPermissionPending, toasts>>
    /\ UNCHANGED otherThanNotification

\* messaging.getToken() settles: with a token, with an empty one, or rejected.
getTokenSettles(c, outcome) ==
    /\ toggles[c].at = "getToken"
    /\ LET run == [toggles[c] EXCEPT !.token = outcome]
       IN  IF outcome # "token"
           THEN toastAndReturn(c, run)
           ELSE /\ toggles' = [toggles EXCEPT ![c] = [run EXCEPT !.at =
                                  IF run.newValue THEN "requestPermission" ELSE "unregister"]]
                /\ UNCHANGED <<enabled, toasts>>
    /\ UNCHANGED hasPermissionPending
    /\ UNCHANGED otherThanNotification

\* messaging.requestPermission() settles with a status, or rejects.
requestPermissionSettles(c, outcome) ==
    /\ toggles[c].at = "requestPermission"
    /\ LET run == [toggles[c] EXCEPT !.status = outcome]
       IN  IF outcome = "throws" \/ ~permitted(outcome)
           THEN toastAndReturn(c, run)
           ELSE /\ toggles' = [toggles EXCEPT ![c] = [run EXCEPT !.at = "register"]]
                /\ UNCHANGED <<enabled, toasts>>
    /\ UNCHANGED hasPermissionPending
    /\ UNCHANGED otherThanNotification

\* The primary call settles: register_device_token (lines 45-50) when
\* turning on, unregister_device_token (lines 66-68) when turning off.
primaryCallSettles(c, ok) ==
    /\ toggles[c].at \in {"register", "unregister"}
    /\ LET run == [toggles[c] EXCEPT !.primary = IF ok THEN "ok" ELSE "throws"]
       IN  IF ~ok
           THEN toastAndReturn(c, run)
           ELSE /\ toggles' = [toggles EXCEPT ![c] = [run EXCEPT !.at =
                                  IF run.at = "register" THEN "subscribe" ELSE "unsubscribe"]]
                /\ UNCHANGED <<enabled, toasts>>
    /\ UNCHANGED hasPermissionPending
    /\ UNCHANGED otherThanNotification

\* The secondary call settles: raven.api.notification.subscribe (lines
\* 53-61) or unsubscribe (lines 71-77); its rejection is caught and dropped,
\* and setEnabled follows (lines 63 and 79).
secondaryCallSettles(c, ok) ==
    /\ toggles[c].at \in {"subscribe", "unsubscribe"}
    /\ enabled' = (toggles[c].at = "subscribe")
    /\ toggles' = [toggles EXCEPT ![c] = [@ EXCEPT !.at = "returned",
                       !.secondary = IF ok THEN "ok" ELSE "throws",
                       !.before = enabled, !.after = enabled', !.wrote = TRUE]]
    /\ UNCHANGED <<hasPermissionPending, toasts>>
    /\ UNCHANGED otherThanNotification

NotificationNext ==
    \/ \E hasPermission \in PermissionStatuses : hasPermissionSettles(hasPermission)
    \/ \E c \in ToggleCalls, newValue \in BOOLEAN : onToggle(c, newValue)
    \/ \E c \in ToggleCalls, outcome \in {"token", "empty", "throws"} : getTokenSettles(c, outcome)
    \/ \E c \in ToggleCalls, outcome \in PermissionStatuses \cup {"throws"} :
           requestPermissionSettles(c, outcome)
    \/ \E c \in ToggleCalls, ok \in BOOLEAN : primaryCallSettles(c, ok)
    \/ \E c \in ToggleCalls, ok \in BOOLEAN : secondaryCallSettles(c, ok)

(***************************************************************************)
(* useSendMessage (unnamed/part_007; lines 9-29 of                         *)
(* frontend/.../ChatInput/useSendMessage.ts are the same text)             *)
(*                                                                         *)
(* sendMessage returns a promise chain; every .then callback is a step of  *)
(* its own.  A call's record keeps where the chain waits (at), the calls   *)
(* it has made so far in order (log), the selectedMessage of the render that  *)
(* made the call and the state of the returned promise.                    *)
(***************************************************************************)
MaxSends == 2

SendCalls == 1..MaxSends

\* The content argument: the empty string, or some text.
Contents == {"", "hello"}

\* The selectedMessage argument of the hook: None, or the message replied to.
SelectedMessages == {None, Some("m1")}

NoSend ==
    [at |-> "idle", content |-> "", selected |-> None, log |-> <<>>, promise |-> "none"]

SendInit ==
    /\ selectedMessage = None
    /\ sends = [c \in SendCalls |-> NoSend]

\* Mutation of hasContent: every content counts as text.
hasContentAlways(content) == TRUE

\* if (content): a string is truthy unless it is empty.
hasContent(content) == content # ""

\* The hook renders with another selectedMessage.
SelectMessage(m) ==
    /\ selectedMessage # m
    /\ selectedMessage' = m
    /\ UNCHANGED sends
    /\ UNCHANGED otherThanSend

\* sendMessage(content) runs to its return: it issues the send_message RPC
\* (lines 12-19) or calls uploadFiles(selectedMessage) (line 26).
sendMessage(c, content) ==
    /\ sends[c].at = "idle"
    /\ \A d \in SendCalls : d < c => sends[d].at # "idle"
    /\ sends' = [sends EXCEPT ![c] =
           IF hasContent(content)
           THEN [at |-> "send_message", content |-> content, promise |-> "pending",
                 selected |-> selectedMessage,
                 log |-> << <<"send_message", Some(content)>> >>]
           ELSE [at |-> "uploadFiles", content |-> content, promise |-> "pending",
                 selected |-> selectedMessage,
                 log |-> << <<"uploadFiles", selectedMessage>> >>]]
    /\ UNCHANGED selectedMessage
    /\ UNCHANGED otherThanSend

\* The send_message RPC settles.  Resolved: the first .then (line 20) calls
\* onMessageSent([res.message]), which returns or throws.  Rejected: every
\* .then of the chain is skipped and the returned promise rejects.
sendMessageSettles(c, ok, throws) ==
    /\ sends[c].at = "send_message"
    /\ sends' = [sends EXCEPT ![c] =
           IF ~ok
           THEN [@ EXCEPT !.at = "done", !.promise = "rejected"]
           ELSE [@ EXCEPT !.log = Append(@, <<"onMessageSent", Some("sent")>>),
                          !.at = IF throws THEN "done" ELSE "then_uploadFiles",
                          !.promise = IF throws THEN "rejected" ELSE "pending"]]
    /\ UNCHANGED selectedMessage
    /\ UNCHANGED otherThanSend

\* The second .then (line 21) runs: uploadFiles() without arguments.
thenUploadFiles(c) ==
    /\ sends[c].at = "then_uploadFiles"
    /\ sends' = [sends EXCEPT ![c] = [@ EXCEPT !.at = "uploadFiles",
                     !.log = Append(@, <<"uploadFiles", None>>)]]
    /\ UNCHANGED selectedMessage
    /\ UNCHANGED otherThanSend

\* uploadFiles settles.  Resolved: onMessageSent(res) (lines 22-24, 27-29),
\* which returns or throws.  Rejected: the returned promise rejects (the
\* .catch of lines 30-33 logs and throws the error again).
uploadFilesSettles(c, ok, throws) ==
    /\ sends[c].at = "uploadFiles"
    /\ sends' = [sends EXCEPT ![c] =
           IF ~ok
           THEN [@ EXCEPT !.at = "done", !.promise = "rejected"]
           ELSE [@ EXCEPT !.log = Append(@, <<"onMessageSent", Some("files")>>),
                          !.at = "done",
                          !.promise = IF throws THEN "rejected" ELSE "fulfilled"]]
    /\ UNCHANGED selectedMessage
    /\ UNCHANGED otherThanSend

SendNext ==
    \/ \E m \in SelectedMessages : SelectMessage(m)
    \/ \E c \in SendCalls, content \in Contents : sendMessage(c, content)
    \/ \E c \in SendCalls, ok \in BOOLEAN, throws \in BOOLEAN : sendMessageSettles(c, ok, throws)
    \/ \E c \in SendCalls : thenUploadFiles(c)
    \/ \E c \in SendCalls, ok \in BOOLEAN, throws \in BOOLEAN : uploadFilesSettles(c, ok, throws)

(***************************************************************************)
(* AddChannel (mobile/src/components/features/channels/AddChannel.tsx)     *)
(*                                                                         *)
(* onSubmit builds createDoc(...).catch(...).then(...).then(...) and       *)
(* returns; each callback of the chain is a step of its own.  A call's     *)
(* record keeps where the chain waits (at), the value or error the chain   *)
(* carries, the local `name`, and what the call has done so far (did).     *)
(***************************************************************************)
MaxSubmits == 2

SubmitCalls == 1..MaxSubmits

\* data.channel_name, and the name of the document the server creates.
ChannelNames == {"general", "random"}

\* err.httpStatus of a rejected createDoc.
HttpStatuses == {409, 417, 500}

NoSubmit ==
    [at |-> "idle", name |-> "", failed |-> FALSE, httpStatus |-> 0,
     result |-> None, did |-> {}]

AddChannelInit ==
    /\ submits = [c \in SubmitCalls |-> NoSubmit]
    /\ presented = <<>>
    /\ formResets = 0
    /\ channelListFetches = 0
    /\ dismissals = 0
    /\ historyStack = <<>>

\* Mutation of caught: the catch callback hands a document on.
caughtGivesDoc(err) == Some([name |-> "undefined"])

\* What the .catch callback (lines 51-57) returns: nothing, so the promise
\* it gives resolves with undefined.
caught(err) == None

\* The toast of lines 52-57.
errorMessage(httpStatus) ==
    IF httpStatus = 409 THEN "Channel name already exists."
                        ELSE "Error while creating the channel."

\* onSubmit(data) runs to its end: createDoc is called (lines 46-50).
onSubmit(c, channel_name) ==
    /\ submits[c].at = "idle"
    /\ \A d \in SubmitCalls : d < c => submits[d].at # "idle"
    /\ submits' = [submits EXCEPT ![c] = [@ EXCEPT !.at = "createDoc", !.name = channel_name]]
    /\ UNCHANGED <<presented, formResets, channelListFetches, dismissals, historyStack>>
    /\ UNCHANGED otherThanAddChannel

\* createDoc resolves with the new document or rejects with an error.
createDocSettles(c, ok, docName, httpStatus) ==
    /\ submits[c].at = "createDoc"
    /\ submits' = [submits EXCEPT ![c] =
           IF ok THEN [@ EXCEPT !.at = "then", !.result = Some([name |-> docName])]
                 ELSE [@ EXCEPT !.at = "catch", !.failed = TRUE, !.httpStatus = httpStatus]]
    /\ UNCHANGED <<presented, formResets, channelListFetches, dismissals, historyStack>>
    /\ UNCHANGED otherThanAddChannel

\* The .catch callback (lines 51-57): an error toast; the chain goes on with
\* what the callback returned.
catchCallback(c) ==
    /\ submits[c].at = "catch"
    /\ LET message == errorMessage(submits[c].httpStatus)
       IN  /\ presented' = Append(presented, message)
           /\ submits' = [submits EXCEPT ![c] = [@ EXCEPT !.at = "then",
                              !.result = caught(submits[c].httpStatus),
                              !.did = @ \cup {message}]]
    /\ UNCHANGED <<formResets, channelListFetches, dismissals, historyStack>>
    /\ UNCHANGED otherThanAddChannel

\* The first .then callback (lines 58-62).  result.name of undefined throws
\* a TypeError before anything else is done: the chain ends rejected.
thenCallback(c) ==
    /\ submits[c].at = "then"
    /\ IF submits[c].result = None
       THEN /\ submits' = [submits EXCEPT ![c] = [@ EXCEPT !.at = "rejected"]]
            /\ UNCHANGED <<formResets, channelListFetches>>
       ELSE /\ submits' = [submits EXCEPT ![c] = [@ EXCEPT !.at = "mutate",
                               !.name = submits[c].result[1].name,
                               !.did = @ \cup {"resetForm", "mutate"}]]
            /\ formResets' = formResets + 1
            /\ channelListFetches' = channelListFetches + 1
    /\ UNCHANGED <<presented, dismissals, historyStack>>
    /\ UNCHANGED otherThanAddChannel

\* mutate() settles; resolved, the last .then callback runs (lines 62-66).
mutateSettles(c, ok) ==
    /\ submits[c].at = "mutate"
    /\ IF ok
       THEN /\ submits' = [submits EXCEPT ![c] = [@ EXCEPT !.at = "fulfilled",
                               !.did = @ \cup {"Channel created successfully.",
                                               "onDismiss", "history.push"}]]
            /\ presented' = Append(presented, "Channel created successfully.")
            /\ dismissals' = dismissals + 1
            /\ historyStack' = Append(historyStack, <<"channel/", submits[c].name>>)
       ELSE /\ submits' = [submits EXCEPT ![c] = [@ EXCEPT !.at = "rejected"]]
            /\ UNCHANGED <<presented, dismissals, historyStack>>
    /\ UNCHANGED <<formResets, channelListFetches>>
    /\ UNCHANGED otherThanAddChannel

AddChannelNext ==
    \/ \E c \in SubmitCalls, channel_name \in ChannelNames : onSubmit(c, channel_name)
    \/ \E c \in SubmitCalls, ok \in BOOLEAN, docName \in ChannelNames, httpStatus \in HttpStatuses :
           createDocSettles(c, ok, docName, httpStatus)
    \/ \E c \in SubmitCalls : catchCallback(c)
    \/ \E c \in SubmitCalls : thenCallback(c)
    \/ \E c \in SubmitCalls, ok \in BOOLEAN : mutateSettles(c, ok)

----------------------------------------------------------------------------
(***************************************************************************)
(* Specifications                                                          *)
(***************************************************************************)

\* In the specification of one hook the others stay as they are mounted.
ReactionIdle ==
    /\ myProfile = Some(CurrentUser)
    /\ user = myProfile
    /\ cacheData = CHOOSE d \in InitStreams : TRUE
    /\ cacheC = None
    /\ mutationTs = 0
    /\ clock = 0
    /\ calls = [c \in CallIds |-> IdleCall]

PushIdle ==
    /\ pushMounted = FALSE
    /\ siteInfo = None
    /\ callMade = FALSE
    /\ chain = "none"
    /\ chainSite = None
    /\ effectRuns = 0
    /\ permissionRequests = 0
    /\ registerCalls = 0
    /\ tokenStore = {}
    /\ ravenSubscribed = {}
    /\ switchedTo = None
    /\ switchRegistering = FALSE

TTSIdle ==
    /\ useTTSInit
    /\ tts = TTSLoaded
    /\ ttsEnabled = FALSE
    /\ isBot = FALSE
    /\ stream = <<>>
    /\ messagesProp = None
    /\ nextName = 1
    /\ recentFrom = 1

InitReaction == ReactionInit /\ PaginationInit /\ PushIdle /\ TTSIdle /\ AIThreadInit /\ NotificationInit /\ SendInit /\ AddChannelInit
SpecReaction == InitReaction /\ [][ReactionNext]_vars

InitPagination == ReactionIdle /\ PaginationInit /\ PushIdle /\ TTSIdle /\ AIThreadInit /\ NotificationInit /\ SendInit /\ AddChannelInit
SpecPagination == InitPagination /\ [][PaginationNext]_vars

InitPush == ReactionIdle /\ PaginationInit /\ PushInit /\ TTSIdle /\ AIThreadInit /\ NotificationInit /\ SendInit /\ AddChannelInit
SpecPush == InitPush /\ [][PushNext]_vars

InitTTS == ReactionIdle /\ PaginationInit /\ PushIdle /\ TTSInit /\ useTTSInit /\ AIThreadInit /\ NotificationInit /\ SendInit /\ AddChannelInit
SpecTTS == InitTTS /\ [][TTSNext]_vars

\* The same with what the browser guarantees: a generate_audio call settles,
\* the play() promise of a playing element settles, the rejection of an aborted
\* play() is delivered, and an element that plays reaches its end or fails.
\* Nothing is assumed of the user, the channel or the component's parent.
TTSFairness ==
    /\ WF_vars(\E ok \in BOOLEAN : GenerateAudioSettles(ok))
    /\ \A a \in AudioIds :
          /\ WF_vars(PlayStarts(a) \/ PlayRefused(a))
          /\ WF_vars(PlayAborted(a))
          /\ WF_vars(AudioEnded(a) \/ AudioError(a))
SpecTTSFair == InitTTS /\ [][TTSNext]_vars /\ TTSFairness

InitAIThread == ReactionIdle /\ PaginationInit /\ PushIdle /\ TTSIdle /\ AIThreadInit /\ NotificationInit /\ SendInit /\ AddChannelInit
SpecAIThread == InitAIThread /\ [][AIThreadNext]_vars

InitNotification == ReactionIdle /\ PaginationInit /\ PushIdle /\ TTSIdle /\ AIThreadInit /\ NotificationInit /\ SendInit /\ AddChannelInit
SpecNotification == InitNotification /\ [][NotificationNext]_vars

InitSend == ReactionIdle /\ PaginationInit /\ PushIdle /\ TTSIdle /\ AIThreadInit /\ NotificationInit /\ SendInit /\ AddChannelInit
SpecSend == InitSend /\ [][SendNext]_vars

InitAddChannel == ReactionIdle /\ PaginationInit /\ PushIdle /\ TTSIdle /\ AIThreadInit /\ NotificationInit /\ SendInit /\ AddChannelInit
SpecAddChannel == InitAddChannel /\ [][AddChannelNext]_vars

----------------------------------------------------------------------------
(***************************************************************************)
(* Properties of useReactToMessage                                         *)
(***************************************************************************)

\* The fields of a call record that only the properties read: pre is the cached
\* value when postReaction was called, shown the value right after the
\* optimistic write, after the value when the returned promise settled, rpc the
\* outcome of the RPC, alone whether no other mutation of the key was in flight
\* at any time between the call and its settling.

Issued(c) == calls[c].st \in {"inflight", "resolved", "rejected"}

HasKey(obj, k) == \E j \in 1..Len(obj) : obj[j].key = k
EntryOf(obj, k) == obj[CHOOSE j \in 1..Len(obj) : obj[j].key = k]
UserSet(obj, k) ==
    IF HasKey(obj, k)
    THEN {EntryOf(obj, k).users[n] : n \in 1..Len(EntryOf(obj, k).users)}
    ELSE {}
HasMessage(data, name) ==
    data # None /\ \E i \in 1..Len(data[1].messages) : data[1].messages[i].name = name

\* C1: if the react RPC of a postReaction call fails, the cached stream is back
\* at the value it had before the call and the returned promise rejects.
C1_RollbackRestoresPreCallValue ==
    \A c \in CallIds :
        calls[c].rpc = "failed" =>
            /\ calls[c].st = "rejected"
            /\ calls[c].after = calls[c].pre

\* The same for a call that no other mutation of the key overlapped.
RollbackWhenAlone ==
    \A c \in CallIds :
        (calls[c].rpc = "failed" /\ calls[c].alone) =>
            /\ calls[c].st = "rejected"
            /\ calls[c].after = calls[c].pre

ToggledOnce(c) ==
    updateMessageWithReaction(calls[c].pre, CurrentUser, calls[c].message,
                              calls[c].args.emoji, calls[c].args.is_custom,
                              calls[c].args.emoji_name)
ToggledOnceFrom(data, c) ==
    updateMessageWithReaction(data, CurrentUser, calls[c].message,
                              calls[c].args.emoji, calls[c].args.is_custom,
                              calls[c].args.emoji_name)
ToggledTwice(c) ==
    updateMessageWithReaction(ToggledOnce(c), CurrentUser, calls[c].message,
                              calls[c].args.emoji, calls[c].args.is_custom,
                              calls[c].args.emoji_name)

\* C2: for an issued postReaction call that no other mutation of the key
\* overlaps, the cache holds the pre-call value with the toggle applied while the
\* RPC is pending, and when the RPC has succeeded the cached value is the
\* pre-call value with the toggle applied exactly once: not the pre-call value
\* itself and not the toggle applied twice, when the target is in the stream.
C2_OptimisticThenConfirmedOnce ==
    \A c \in CallIds :
        (Issued(c) /\ calls[c].alone) =>
            /\ calls[c].shown = ToggledOnce(c)
            /\ calls[c].st = "inflight" => cacheData = ToggledOnce(c)
            /\ calls[c].rpc = "ok" =>
                /\ calls[c].st = "resolved"
                /\ calls[c].after = ToggledOnce(c)
                /\ HasMessage(calls[c].pre, calls[c].message) =>
                      /\ calls[c].after # calls[c].pre
                      /\ calls[c].after # ToggledTwice(c)

\* A second call, made after the first settled, has succeeded on a message of
\* the stream.
C2_Witness ==
    /\ MaxCalls >= 2
    /\ calls[1].st \in {"resolved", "rejected"}
    /\ calls[2].alone /\ calls[2].rpc = "ok"
    /\ HasMessage(calls[2].pre, calls[2].message)
    /\ cacheData = calls[2].after

\* The stream before call c with the toggles of c and then of d applied.
ToggledByBoth(c, d) ==
    updateMessageWithReaction(ToggledOnce(c), CurrentUser, calls[d].message,
                              calls[d].args.emoji, calls[d].args.is_custom,
                              calls[d].args.emoji_name)

\* C14: when two postReaction calls with different emojis overlap (the second
\* starts while the RPC of the first is pending) and both RPCs have succeeded,
\* the cached stream shows both toggles.
C14_ConcurrentReactionsKept ==
    \A c, d \in CallIds :
        ( /\ c < d
          /\ calls[c].rpc = "ok" /\ calls[d].rpc = "ok"
          /\ ~calls[d].alone
          /\ \A x \in CallIds \ {c, d} : calls[x].st \in {"idle", "skipped"}
          /\ emojiKey(calls[c].args.emoji, calls[c].args.is_custom, calls[c].args.emoji_name)
                # emojiKey(calls[d].args.emoji, calls[d].args.is_custom, calls[d].args.emoji_name)
          /\ HasMessage(calls[c].pre, calls[c].message)
          /\ HasMessage(calls[c].pre, calls[d].message) )
        => cacheData = ToggledByBoth(c, d)

\* Every entry of a reactions object counts its users: count is the length of
\* users, no user is listed twice, and count is at least 1.
CountsItsUsers(obj) ==
    \A i \in 1..Len(obj) :
        /\ obj[i].count = Len(obj[i].users)
        /\ obj[i].count >= 1
        /\ \A x, y \in 1..Len(obj[i].users) : x # y => obj[i].users[x] # obj[i].users[y]

\* The reactions of the message named name in a stream (empty when absent).
ReactionsOf(data, name) ==
    IF HasMessage(data, name)
    THEN JSONparse(data[1].messages[CHOOSE i \in 1..Len(data[1].messages) :
                                        data[1].messages[i].name = name].message_reactions)
    ELSE <<>>

ReactionUsers == {"u", "v", "w"}

\* C15: when every reaction entry of the target message counts its users,
\* no user twice and at least one, the same holds after
\* updateMessageWithReaction, for any user and emoji: for the toggles the
\* calls made, and for any toggle of any user on the cached stream.
C15_CountInvariantKept ==
    /\ \A c \in CallIds :
          (Issued(c) /\ CountsItsUsers(ReactionsOf(calls[c].committed, calls[c].message))) =>
              CountsItsUsers(ReactionsOf(calls[c].shown, calls[c].message))
    /\ \A userName \in ReactionUsers, in \in PostReactionInputs :
          CountsItsUsers(ReactionsOf(cacheData, in.message)) =>
              CountsItsUsers(ReactionsOf(
                  updateMessageWithReaction(cacheData, userName, in.message, in.args.emoji,
                                            in.args.is_custom, in.args.emoji_name),
                  in.message))

\* A call took the current user out of an entry that another user stays on.
C15_Witness ==
    \E c \in CallIds :
        /\ Issued(c)
        /\ CountsItsUsers(ReactionsOf(calls[c].committed, calls[c].message))
        /\ LET k == emojiKey(calls[c].args.emoji, calls[c].args.is_custom,
                             calls[c].args.emoji_name)
               before == ReactionsOf(calls[c].committed, calls[c].message)
               now == ReactionsOf(calls[c].shown, calls[c].message)
           IN  /\ HasKey(before, k) /\ HasKey(now, k)
               /\ EntryOf(before, k).count = 2 /\ EntryOf(now, k).count = 1
               /\ EntryOf(now, k).users = <<"v">>

\* C16: a postReaction call resolves at once, with no react RPC and the cache
\* untouched, exactly when the current user's profile is unavailable at the
\* time of the call; with the profile loaded the call issues the RPC.
C16_SkipsExactlyWithoutProfile ==
    [][\A c \in CallIds :
          (calls[c].st = "idle" /\ calls'[c].st # "idle") =>
              /\ calls'[c].st = "skipped" <=> myProfile = None
              /\ calls'[c].st = "inflight" <=> myProfile # None
              /\ calls'[c].st = "skipped" => cacheData' = cacheData]_vars

C3_Key(a) == IF a.is_custom /\ a.emoji_name # None THEN a.emoji_name[1] ELSE a.emoji

\* C3: updateMessageWithReaction flips the current user's membership in the
\* users list of the emoji key (emoji_name when is_custom and emoji_name is
\* given, otherwise emoji) of the target message: a member is removed, and the
\* entry deleted when its count was 1; a non-member is added, the entry being
\* created with count 1 when absent.
C3_ToggleSemantics ==
    \A c \in CallIds :
        (Issued(c) /\ calls[c].committed # None) =>
            LET in == calls[c].committed[1].messages
                out == calls[c].shown[1].messages
                k == C3_Key(calls[c].args)
            IN  /\ Len(out) = Len(in)
                /\ \A i \in 1..Len(in) :
                      in[i].name = calls[c].message =>
                        LET before == JSONparse(in[i].message_reactions)
                            now == JSONparse(out[i].message_reactions)
                        IN  IF CurrentUser \in UserSet(before, k)
                            THEN /\ CurrentUser \notin UserSet(now, k)
                                 /\ EntryOf(before, k).count = 1 => ~HasKey(now, k)
                                 /\ EntryOf(before, k).count # 1 =>
                                       /\ HasKey(now, k)
                                       /\ UserSet(now, k) = UserSet(before, k) \ {CurrentUser}
                                       /\ EntryOf(now, k).count = EntryOf(before, k).count - 1
                            ELSE /\ CurrentUser \in UserSet(now, k)
                                 /\ HasKey(before, k) =>
                                       /\ UserSet(now, k) = UserSet(before, k) \cup {CurrentUser}
                                       /\ EntryOf(now, k).count = EntryOf(before, k).count + 1
                                 /\ ~HasKey(before, k) =>
                                       /\ EntryOf(now, k).count = 1
                                       /\ EntryOf(now, k).users = <<CurrentUser>>

\* A custom emoji with a name has been toggled off by a user who was one of
\* several on it, and a plain emoji has been toggled on where it was absent.
C3_Witness ==
    \E c, d \in CallIds :
        /\ Issued(c) /\ calls[c].committed # None
        /\ calls[c].args.is_custom /\ calls[c].args.emoji_name = Some("n1")
        /\ calls[c].message = "m1"
        /\ CurrentUser \in UserSet(JSONparse(calls[c].committed[1].messages[1].message_reactions), "n1")
        /\ CurrentUser \notin UserSet(JSONparse(calls[c].shown[1].messages[1].message_reactions), "n1")
        /\ Issued(d) /\ calls[d].committed # None
        /\ calls[d].args.emoji = "e2" /\ calls[d].message = "m1"
        /\ ~HasKey(JSONparse(calls[d].committed[1].messages[1].message_reactions), "e2")
        /\ HasKey(JSONparse(calls[d].shown[1].messages[1].message_reactions), "e2")


----------------------------------------------------------------------------
(***************************************************************************)
(* Properties of useChatPagination                                         *)
(***************************************************************************)

\* C7: after any sequence of addToMessages calls the list holds each message
\* name at most once, and for every name of the latest batch the stored entry is
\* a version of that name from that batch (with its key).
C7_MergeUniqueAndLatest ==
    /\ \A i, j \in 1..Len(messages) :
          i # j => messages[i].name # messages[j].name
    /\ \A b \in 1..Len(lastBatch) :
          \E i \in 1..Len(messages), v \in 1..Len(lastBatch) :
             /\ lastBatch[v].name = lastBatch[b].name
             /\ messages[i].name = lastBatch[b].name
             /\ messages[i].creation = lastBatch[v].creation
             /\ messages[i].modified = lastBatch[v].modified
             /\ messages[i].key = Some(<<lastBatch[v].name, "_", lastBatch[v].modified>>)

\* The latest batch brought a newer version of a stored message, next to two
\* other stored messages.
C7_Witness ==
    /\ replaced
    /\ Len(messages) = 3
    /\ Len(lastBatch) >= 1

\* C13: once a delete event has been received for a message of the list, the
\* messages the hook returns no longer hold that message, at the latest when
\* the latest messages have been fetched and added again.
C13_DeletedMessageRemoved ==
    (deleted # None /\ refetched) =>
        \A i \in 1..Len(messages) : Some(messages[i].name) # deleted

----------------------------------------------------------------------------
(***************************************************************************)
(* Properties of useFirebasePushTokenListener                              *)
(***************************************************************************)

C10_SiteSwitchRegisters ==
    switchedTo # None => switchRegistering

----------------------------------------------------------------------------
(***************************************************************************)
(* Properties of useTTSAutoPlay                                            *)
(***************************************************************************)

\* An audio element that is sounding: play() was called on it, playback has
\* begun, and it has not been paused, ended or failed since.
Sounding(a) == tts.audios[a].st = "playing" /\ tts.audios[a].play = "resolved"

\* C4: across all mounted instances at most one auto-play audio element is
\* playing at any time.
C4_OneAudioAtATime ==
    Cardinality({a \in AudioIds : Sounding(a)}) <= 1

\* C11: when TTSToggle switches TTS off, no text-to-speech audio is playing
\* afterwards: an element that was playing has been stopped.
C11_ToggleOffStopsPlayback ==
    [][handleToggle(FALSE) => \A a \in AudioIds : ~Sounding(a)']_vars

\* Bot message n, with text to speak, is the latest of the list of a mounted
\* instance that had its initial load without it and counts it as new, in a
\* bot channel with text-to-speech enabled.
ArrivedAfterInitialLoad(n) ==
    /\ ttsEnabled /\ isBot
    /\ messagesProp # None
    /\ messagesProp[1] # <<>>
    /\ messagesProp[1][Len(messagesProp[1])] = [name |-> n, kind |-> "bot"]
    /\ \E i \in Instances :
          /\ tts.inst[i].mounted
          /\ tts.inst[i].initialMessageCount # None
          /\ tts.inst[i].sawList
          /\ n > tts.inst[i].seenUpTo
          /\ Len(actualMessages(messagesProp)[1]) > tts.inst[i].initialMessageCount[1]

\* Message n need not be spoken any more: text-to-speech was switched off, the
\* channel is no bot channel, the message has left the list or the hook is
\* not mounted.
NoLongerDue(n) ==
    \/ ~ttsEnabled \/ ~isBot
    \/ messagesProp = None
    \/ \A k \in 1..Len(messagesProp[1]) : messagesProp[1][k].name # n
    \/ \A i \in Instances : ~tts.inst[i].mounted

\* C18: every bot message with text that arrives after the initial load, in a
\* bot channel with text-to-speech enabled, eventually gets a generate_audio
\* call, also when it arrives while another audio is generated or played.
C18_NoBotMessageSkipped ==
    \A n \in Names : ArrivedAfterInitialLoad(n) ~> (tts.generated[n] > 0 \/ NoLongerDue(n))

\* The busy flag can still be released by something under way: a call in
\* flight, an element playing, or the rejection of an aborted play().
ReleasePending ==
    \/ tts.rpcs > 0
    \/ \E a \in AudioIds : tts.audios[a].st = "playing" \/ tts.audios[a].play = "aborted"

\* C19: whenever globalIsPlaying is true it becomes false again, given that
\* every generate_audio call settles and every started audio ends, fails or has
\* its play() rejected.
C19_BusyFlagReleased ==
    tts.globalIsPlaying ~> ~tts.globalIsPlaying

\* The flag is set while the element of an earlier call is playing and a later
\* call is in flight: the element is about to be replaced.
C19_Witness ==
    /\ tts.globalIsPlaying
    /\ tts.rpcs > 0
    /\ \E a \in AudioIds : Sounding(a)

\* C5: at most one generate_audio call is issued per message name.
C5_OneCallPerMessage ==
    \A n \in Names : tts.generated[n] <= 1

\* C6: no generate_audio call is issued for a message that was in the stream
\* when the hook instance first saw a non-empty message list.
C6_OnlyNewMessages ==
    ~tts.readInitial

----------------------------------------------------------------------------
(***************************************************************************)
(* Properties of AIThreadAutoOpen                                          *)
(***************************************************************************)

\* C12: an ai_thread_created event makes the component call
\* goToThread(thread_id) if and only if is_ai_thread and thread_id are set and
\* channel_id equals the component's channelID; the call is for that thread_id,
\* and an event of another channel causes no call.
C12_OpensExactlyOwnAIThreads ==
    /\ lastEvent # None =>
         LET ev == lastEvent[1]
         IN  /\ ev.opened <=> /\ ev.data.is_ai_thread = Some(TRUE)
                              /\ ev.data.thread_id \notin {None, Some("")}
                              /\ ev.data.channel_id = Some(ev.channelID)
             /\ ev.opened => goToThreadCalls[Len(goToThreadCalls)] = ev.data.thread_id[1]
    /\ Len(goToThreadCalls) <= events

\* An event of the other channel, with a thread, was heard after an own one
\* had opened its thread.
C12_Witness ==
    /\ lastEvent # None
    /\ ~lastEvent[1].opened
    /\ lastEvent[1].data.is_ai_thread = Some(TRUE)
    /\ lastEvent[1].data.thread_id = Some("t2")
    /\ lastEvent[1].data.channel_id \notin {None, Some(""), Some(lastEvent[1].channelID)}
    /\ goToThreadCalls = <<"t1">>

----------------------------------------------------------------------------
(***************************************************************************)
(* NotificationSetting.onToggle                                            *)
(***************************************************************************)
\* What the promises of a call gave it: the call failed when there was no
\* token, when turning on was not permitted, or when the primary call threw.
ToggleFailed(run) ==
    \/ run.token # "token"
    \/ run.newValue /\ run.status \notin {"AUTHORIZED", "EPHEMERAL"}
    \/ run.primary # "ok"

\* C20: a call of onToggle writes `enabled` only after its primary RPC
\* (register_device_token when turning on, unregister_device_token when
\* turning off) has succeeded.  A call that ended without a token, without
\* an AUTHORIZED or EPHEMERAL permission, or with a throwing primary RPC left
\* `enabled` as it was and showed an error toast; any other call set
\* `enabled` to newValue, whether or not the secondary call failed.
C20_EnabledFollowsPrimaryCall ==
    \A c \in ToggleCalls :
        LET run == toggles[c]
        IN  /\ run.wrote => run.primary = "ok" /\ run.at = "returned"
            /\ run.at = "returned" =>
                   IF ToggleFailed(run)
                   THEN run.after = run.before /\ run.toasted /\ ~run.wrote
                   ELSE run.after = run.newValue /\ run.wrote /\ ~run.toasted

\* A call whose secondary call failed has changed `enabled`, and a call
\* whose permission was denied has ended with a toast.
C20_Witness ==
    \E c, d \in ToggleCalls :
        /\ toggles[c].at = "returned" /\ toggles[c].secondary = "throws"
        /\ toggles[c].after # toggles[c].before
        /\ toggles[d].at = "returned" /\ toggles[d].status = "DENIED"
        /\ toggles[d].toasted

----------------------------------------------------------------------------
(***************************************************************************)
(* useSendMessage.sendMessage                                              *)
(***************************************************************************)
\* The calls a sendMessage with text makes when everything succeeds.
SendThenUpload(content) ==
    << <<"send_message", Some(content)>>, <<"onMessageSent", Some("sent")>>,
       <<"uploadFiles", None>>, <<"onMessageSent", Some("files")>> >>

IsPrefix(s, t) == Len(s) <= Len(t) /\ SubSeq(t, 1, Len(s)) = s

\* C21: for non-empty content sendMessage issues the send_message RPC, then
\* calls onMessageSent with the sent message, then starts uploadFiles and
\* then calls onMessageSent with the uploaded file messages, in this order
\* and in full when the returned promise fulfils.  When the send RPC failed
\* nothing but the RPC was called and the returned promise rejects.  For
\* empty content the only calls are uploadFiles(selectedMessage) and the
\* onMessageSent of its result; no send_message RPC is issued.
C21_SendThenUpload ==
    \A c \in SendCalls :
        LET run == sends[c]
        IN  run.at # "idle" =>
                IF run.content # ""
                THEN /\ Len(run.log) >= 1
                     /\ IsPrefix(run.log, SendThenUpload(run.content))
                     /\ run.promise = "fulfilled" => run.log = SendThenUpload(run.content)
                     /\ (run.at = "done" /\ Len(run.log) = 1) => run.promise = "rejected"
                ELSE /\ run.log[1] = <<"uploadFiles", run.selected>>
                     /\ \A i \in 1..Len(run.log) : run.log[i][1] # "send_message"
                     /\ \A i \in 2..Len(run.log) : run.log[i] = <<"onMessageSent", Some("files")>>
                     /\ Len(run.log) <= 2

\* One call with text went through the whole chain and another call with
\* text ended with a failed send RPC.
C21_Witness ==
    \E c, d \in SendCalls :
        /\ sends[c].promise = "fulfilled" /\ sends[c].content # ""
        /\ sends[d].at = "done" /\ sends[d].content # "" /\ Len(sends[d].log) = 1
        /\ sends[d].promise = "rejected"

----------------------------------------------------------------------------
(***************************************************************************)
(* AddChannel.onSubmit                                                     *)
(***************************************************************************)
\* C22: when createDoc rejected, the call of onSubmit shows one error toast,
\* 'Channel name already exists.' for HTTP status 409 and the generic one
\* otherwise, and does none of the success steps: no form reset, no
\* re-fetch of the channel list, no success toast, no dismissal of the
\* modal and no navigation.
C22_FailedCreateOnlyToasts ==
    \A c \in SubmitCalls :
        LET run == submits[c]
            expected == IF run.httpStatus = 409 THEN "Channel name already exists."
                                                ELSE "Error while creating the channel."
        IN  run.failed =>
                /\ run.did \subseteq {expected}
                /\ run.at # "catch" => run.did = {expected}
                /\ run.at \in {"catch", "then", "rejected"}

\* Two calls whose createDoc rejected have run to their end, one with status
\* 409 and one with another status.
C22_Witness ==
    \E c, d \in SubmitCalls :
        /\ submits[c].failed /\ submits[c].at = "rejected" /\ submits[c].httpStatus = 409
        /\ submits[d].failed /\ submits[d].at = "rejected" /\ submits[d].httpStatus # 409

=========================================================================
